---- MODULE Spec2Model ----
(***************************************************************************)
(* Model of the financial-analyzer backend: value coercion, label          *)
(* canonicalisation, column classification and statement normalisation     *)
(* (normalize.py), table extraction with strategy fallback and header      *)
(* de-duplication (parse_pdf.py), and the auto-extract request loop        *)
(* (main.py).                                                              *)
(*                                                                         *)
(* Text is a sequence of one-character strings.  Python's None / pandas    *)
(* NaN is the value None for a cell and NoNumber for a coerced value.      *)
(* Each component has its own specification; the variables of the other    *)
(* components stay at their idle values.                                   *)
(***************************************************************************)
EXTENDS Integers, Sequences, FiniteSets, TLC

VARIABLES
    pc,          \* position of the operation under way
    x, num,      \* _to_number: argument and returned value
    raw, stype, canon,   \* _canonical_name: arguments and returned key
    series, ratio,       \* _mostly_numeric: argument and returned fraction
    df, label_col, value_cols, tidy,  \* _pick_label_and_values / normalize_statement
    pages, calls, tables, used, header, columns, nrows, error,  \* extract_tables
    doc, pages_map, idx, outcome, output   \* detect_pages / auto_extract_endpoint

vars == <<pc, x, num, raw, stype, canon, series, ratio, df, label_col, value_cols,
          tidy, pages, calls, tables, used, header, columns, nrows, error, doc,
          pages_map, idx, outcome, output>>

coerceVars  == <<x, num>>
canonVars   == <<raw, stype, canon>>
seriesVars  == <<series, ratio>>
normVars    == <<df, label_col, value_cols, tidy>>
extractVars == <<pages, calls, tables, used, header, columns, nrows, error>>
autoVars    == <<doc, pages_map, idx, outcome, output>>

-----------------------------------------------------------------------------
(* Bounds *)

MaxLen == 4

-----------------------------------------------------------------------------
(* Text helpers *)

\* A missing cell (Python None, pandas NaN): not a text.
None == <<"None">>

\* A missing number (Python None returned by _to_number).
NoNumber == [null |-> TRUE]

EmDash == "EMDASH"
EnDash == "ENDASH"
Tab == "TAB"

Whitespace == {" ", Tab}
Digits == {"0", "1", "2", "3", "4", "5", "6", "7", "8", "9"}

DigitVal(c) ==
    CASE c = "0" -> 0 [] c = "1" -> 1 [] c = "2" -> 2 [] c = "3" -> 3 [] c = "4" -> 4
      [] c = "5" -> 5 [] c = "6" -> 6 [] c = "7" -> 7 [] c = "8" -> 8 [] c = "9" -> 9

DigitChar(d) ==
    CASE d = 0 -> "0" [] d = 1 -> "1" [] d = 2 -> "2" [] d = 3 -> "3" [] d = 4 -> "4"
      [] d = 5 -> "5" [] d = 6 -> "6" [] d = 7 -> "7" [] d = 8 -> "8" [] d = 9 -> "9"

\* str(n) for a natural number n.
RECURSIVE Str(_)
Str(n) == IF n < 10 THEN <<DigitChar(n)>> ELSE Str(n \div 10) \o <<DigitChar(n % 10)>>

RECURSIVE LStrip(_)
LStrip(s) == IF s # <<>> /\ Head(s) \in Whitespace THEN LStrip(Tail(s)) ELSE s

RECURSIVE RStrip(_)
RStrip(s) ==
    IF s # <<>> /\ s[Len(s)] \in Whitespace THEN RStrip(SubSeq(s, 1, Len(s) - 1)) ELSE s

\* str.strip()
Strip(s) == RStrip(LStrip(s))

\* s.replace(",", "")
RECURSIVE RemoveCommas(_)
RemoveCommas(s) ==
    IF s = <<>> THEN <<>>
    ELSE IF Head(s) = "," THEN RemoveCommas(Tail(s))
    ELSE <<Head(s)>> \o RemoveCommas(Tail(s))

\* re.match(r"^\(.*\)$", s): the text opens with "(" and closes with ")".
MatchesParens(s) == Len(s) >= 2 /\ s[1] = "(" /\ s[Len(s)] = ")"

RECURSIVE DigitsValue(_)
DigitsValue(s) ==
    IF s = <<>> THEN 0 ELSE 10 * DigitsValue(SubSeq(s, 1, Len(s) - 1)) + DigitVal(s[Len(s)])

IsDigit(c) == c \in Digits

\* float(s) in the try block of _to_number: surrounding whitespace is ignored, then an
\* optional sign and decimal digits with at most one point and at least one digit.
\* The number is (-1)^neg * mant / 10^frac; anything else raises, which the bare except
\* turns into None.  (Exponents, underscores, inf and nan are outside the modelled
\* alphabets.)
ParseFloat(s) ==
    LET t == Strip(s)
        signed == t # <<>> /\ t[1] \in {"-", "+"}
        body == IF signed THEN Tail(t) ELSE t
        dots == {i \in 1..Len(body) : body[i] = "."}
        digs == {i \in 1..Len(body) : body[i] \in Digits}
    IN  IF digs # {} /\ Cardinality(dots) <= 1 /\ digs \cup dots = 1..Len(body)
        THEN [null |-> FALSE,
              neg |-> signed /\ t[1] = "-",
              mant |-> DigitsValue(SelectSeq(body, IsDigit)),
              frac |-> IF dots = {} THEN 0 ELSE Len(body) - (CHOOSE i \in dots : TRUE)]
        ELSE NoNumber

-----------------------------------------------------------------------------
(* normalize.py: _to_number *)

ParenToMinus(s) == IF MatchesParens(s) THEN <<"-">> \o SubSeq(s, 2, Len(s) - 1) ELSE s

ToNumberNoCommaStrip(c) ==
    IF c = None THEN NoNumber
    ELSE LET s == Strip(c)
         IN  IF s \in {<<>>, <<"-">>, <<EmDash>>, <<EnDash>>} THEN NoNumber
             ELSE ParseFloat(ParenToMinus(s))

ToNumber(c) ==
    IF c = None THEN NoNumber
    ELSE LET s == Strip(c)
         IN  IF s \in {<<>>, <<"-">>, <<EmDash>>, <<EnDash>>} THEN NoNumber
             ELSE ParseFloat(ParenToMinus(RemoveCommas(s)))

\* The characters cell texts are drawn from.
CellChars == {" ", "-", "(", ")", ",", ".", "1", "x", EmDash, EnDash}

CellTexts == UNION {[1..n -> CellChars] : n \in 0..MaxLen}

Idle == <<>>

CoerceIdle == x = Idle /\ num = NoNumber
CanonIdle == raw = Idle /\ stype = Idle /\ canon = Idle
SeriesIdle == series = Idle /\ ratio = Idle
NormIdle == df = Idle /\ label_col = Idle /\ value_cols = Idle /\ tidy = Idle
ExtractIdle ==
    pages = Idle /\ calls = Idle /\ tables = Idle /\ used = Idle /\ header = Idle
    /\ columns = Idle /\ nrows = 0 /\ error = Idle
AutoIdle == doc = Idle /\ pages_map = Idle /\ idx = 0 /\ outcome = Idle /\ output = Idle

CoerceInit ==
    /\ pc = "call"
    /\ x \in CellTexts \cup {None}
    /\ num = NoNumber
    /\ CanonIdle /\ SeriesIdle /\ NormIdle /\ ExtractIdle /\ AutoIdle

to_number ==
    /\ pc = "call"
    /\ num' = ToNumber(x)
    /\ pc' = "returned"
    /\ UNCHANGED <<x, canonVars, seriesVars, normVars, extractVars, autoVars>>

CoerceNext == to_number

SpecCoerce == CoerceInit /\ [][CoerceNext]_vars

-----------------------------------------------------------------------------
(* C7 *)

\* The text left after trimming, dropping every comma, and turning a text wrapped in
\* parentheses into a minus sign followed by what the parentheses hold.
NotComma(c) == c # ","
Residual(c) ==
    LET t == SelectSeq(Strip(c), NotComma)
    IN  IF t # <<>> /\ Head(t) = "(" /\ t[Len(t)] = ")" /\ Len(t) > 1
        THEN <<"-">> \o [i \in 1..(Len(t) - 2) |-> t[i + 1]]
        ELSE t

Placeholder(c) == Strip(c) \in {<<>>, <<"-">>, <<EmDash>>, <<EnDash>>}

AllDigits(s) == s # <<>> /\ \A i \in 1..Len(s) : s[i] \in Digits

\* C7: _to_number always returns; for a cell text it returns None exactly when the
\* trimmed text is empty, a hyphen or a long dash, or when the text left after comma
\* stripping and parenthesis negation is no decimal number; otherwise it returns that
\* number, so "(d)" with d a run of digits yields minus d.
C7_CoerceNullIff ==
    (pc = "returned" /\ x # None) =>
        /\ (num = NoNumber) <=> (Placeholder(x) \/ ParseFloat(Residual(x)) = NoNumber)
        /\ ~Placeholder(x) => num = ParseFloat(Residual(x))
        /\ LET t == Strip(x)
               d == SubSeq(t, 2, Len(t) - 1)
           IN  (Len(t) > 2 /\ t[1] = "(" /\ t[Len(t)] = ")" /\ AllDigits(d)) =>
                   num = [null |-> FALSE, neg |-> TRUE, mant |-> DigitsValue(d), frac |-> 0]

\* A parenthesised text holding a comma has been coerced to a negative number.
C7_Witness ==
    /\ pc = "returned"
    /\ x = <<"(", "1", ",", ")">>
    /\ num = [null |-> FALSE, neg |-> TRUE, mant |-> 1, frac |-> 0]

-----------------------------------------------------------------------------
(* normalize.py: _clean_text, the canonical maps, _canonical_name *)

MaxTokens == 3

UpperLetters ==
    <<"A", "B", "C", "D", "E", "F", "G", "H", "I", "J", "K", "L", "M",
      "N", "O", "P", "Q", "R", "S", "T", "U", "V", "W", "X", "Y", "Z">>

LowerLetters ==
    <<"a", "b", "c", "d", "e", "f", "g", "h", "i", "j", "k", "l", "m",
      "n", "o", "p", "q", "r", "s", "t", "u", "v", "w", "x", "y", "z">>

\* str.lower() on one character.
LowerChar(c) ==
    IF \E i \in 1..26 : UpperLetters[i] = c
    THEN LowerLetters[CHOOSE i \in 1..26 : UpperLetters[i] = c]
    ELSE c

Lower(s) == [i \in 1..Len(s) |-> LowerChar(s[i])]

\* str(s): None prints as "None".
StrOf(s) == IF s = None THEN <<"N", "o", "n", "e">> ELSE s

\* re.sub(r"\s+", " ", s): every run of whitespace becomes one space.
RECURSIVE CollapseSpaces(_)
CollapseSpaces(s) ==
    IF s = <<>> THEN <<>>
    ELSE IF Head(s) \in Whitespace THEN <<" ">> \o CollapseSpaces(LStrip(s))
    ELSE <<Head(s)>> \o CollapseSpaces(Tail(s))

CleanText(s) == Lower(Strip(CollapseSpaces(StrOf(s))))

INCOME_MAP ==
    <<
      \* "total revenues": "revenue"
      [k |-> <<"t", "o", "t", "a", "l", " ", "r", "e", "v", "e", "n", "u", "e", "s">>,
       v |-> <<"r", "e", "v", "e", "n", "u", "e">>],
      \* "sales and revenue": "revenue"
      [k |-> <<"s", "a", "l", "e", "s", " ", "a", "n", "d", " ", "r", "e", "v", "e", "n", "u", "e">>,
       v |-> <<"r", "e", "v", "e", "n", "u", "e">>],
      \* "net sales": "revenue"
      [k |-> <<"n", "e", "t", " ", "s", "a", "l", "e", "s">>,
       v |-> <<"r", "e", "v", "e", "n", "u", "e">>],
      \* "revenue": "revenue"
      [k |-> <<"r", "e", "v", "e", "n", "u", "e">>,
       v |-> <<"r", "e", "v", "e", "n", "u", "e">>],
      \* "cost of sales": "cogs"
      [k |-> <<"c", "o", "s", "t", " ", "o", "f", " ", "s", "a", "l", "e", "s">>,
       v |-> <<"c", "o", "g", "s">>],
      \* "cost of goods sold": "cogs"
      [k |-> <<"c", "o", "s", "t", " ", "o", "f", " ", "g", "o", "o", "d", "s", " ", "s", "o", "l", "d">>,
       v |-> <<"c", "o", "g", "s">>],
      \* "gross profit": "gross_profit"
      [k |-> <<"g", "r", "o", "s", "s", " ", "p", "r", "o", "f", "i", "t">>,
       v |-> <<"g", "r", "o", "s", "s", "_", "p", "r", "o", "f", "i", "t">>],
      \* "selling, general and administrative expenses": "sga"
      [k |-> <<"s", "e", "l", "l", "i", "n", "g", ",", " ", "g", "e", "n", "e", "r", "a", "l", " ", "a", "n", "d", " ", "a", "d", "m", "i", "n", "i", "s", "t", "r", "a", "t", "i", "v", "e", " ", "e", "x", "p", "e", "n", "s", "e", "s">>,
       v |-> <<"s", "g", "a">>],
      \* "research and engineering": "rd"
      [k |-> <<"r", "e", "s", "e", "a", "r", "c", "h", " ", "a", "n", "d", " ", "e", "n", "g", "i", "n", "e", "e", "r", "i", "n", "g">>,
       v |-> <<"r", "d">>],
      \* "research and development": "rd"
      [k |-> <<"r", "e", "s", "e", "a", "r", "c", "h", " ", "a", "n", "d", " ", "d", "e", "v", "e", "l", "o", "p", "m", "e", "n", "t">>,
       v |-> <<"r", "d">>],
      \* "operating income": "operating_income"
      [k |-> <<"o", "p", "e", "r", "a", "t", "i", "n", "g", " ", "i", "n", "c", "o", "m", "e">>,
       v |-> <<"o", "p", "e", "r", "a", "t", "i", "n", "g", "_", "i", "n", "c", "o", "m", "e">>],
      \* "interest expense": "interest_expense"
      [k |-> <<"i", "n", "t", "e", "r", "e", "s", "t", " ", "e", "x", "p", "e", "n", "s", "e">>,
       v |-> <<"i", "n", "t", "e", "r", "e", "s", "t", "_", "e", "x", "p", "e", "n", "s", "e">>],
      \* "provision for income taxes": "income_tax_expense"
      [k |-> <<"p", "r", "o", "v", "i", "s", "i", "o", "n", " ", "f", "o", "r", " ", "i", "n", "c", "o", "m", "e", " ", "t", "a", "x", "e", "s">>,
       v |-> <<"i", "n", "c", "o", "m", "e", "_", "t", "a", "x", "_", "e", "x", "p", "e", "n", "s", "e">>],
      \* "income tax": "income_tax_expense"
      [k |-> <<"i", "n", "c", "o", "m", "e", " ", "t", "a", "x">>,
       v |-> <<"i", "n", "c", "o", "m", "e", "_", "t", "a", "x", "_", "e", "x", "p", "e", "n", "s", "e">>],
      \* "net income/(loss)": "net_income"
      [k |-> <<"n", "e", "t", " ", "i", "n", "c", "o", "m", "e", "/", "(", "l", "o", "s", "s", ")">>,
       v |-> <<"n", "e", "t", "_", "i", "n", "c", "o", "m", "e">>],
      \* "net income": "net_income"
      [k |-> <<"n", "e", "t", " ", "i", "n", "c", "o", "m", "e">>,
       v |-> <<"n", "e", "t", "_", "i", "n", "c", "o", "m", "e">>]
    >>

BALANCE_MAP ==
    <<
      \* "cash and cash equivalents": "cash"
      [k |-> <<"c", "a", "s", "h", " ", "a", "n", "d", " ", "c", "a", "s", "h", " ", "e", "q", "u", "i", "v", "a", "l", "e", "n", "t", "s">>,
       v |-> <<"c", "a", "s", "h">>],
      \* "accounts receivable": "receivables"
      [k |-> <<"a", "c", "c", "o", "u", "n", "t", "s", " ", "r", "e", "c", "e", "i", "v", "a", "b", "l", "e">>,
       v |-> <<"r", "e", "c", "e", "i", "v", "a", "b", "l", "e", "s">>],
      \* "trade receivables": "receivables"
      [k |-> <<"t", "r", "a", "d", "e", " ", "r", "e", "c", "e", "i", "v", "a", "b", "l", "e", "s">>,
       v |-> <<"r", "e", "c", "e", "i", "v", "a", "b", "l", "e", "s">>],
      \* "inventories": "inventory"
      [k |-> <<"i", "n", "v", "e", "n", "t", "o", "r", "i", "e", "s">>,
       v |-> <<"i", "n", "v", "e", "n", "t", "o", "r", "y">>],
      \* "total current assets": "total_current_assets"
      [k |-> <<"t", "o", "t", "a", "l", " ", "c", "u", "r", "r", "e", "n", "t", " ", "a", "s", "s", "e", "t", "s">>,
       v |-> <<"t", "o", "t", "a", "l", "_", "c", "u", "r", "r", "e", "n", "t", "_", "a", "s", "s", "e", "t", "s">>],
      \* "property, plant and equipment": "ppe"
      [k |-> <<"p", "r", "o", "p", "e", "r", "t", "y", ",", " ", "p", "l", "a", "n", "t", " ", "a", "n", "d", " ", "e", "q", "u", "i", "p", "m", "e", "n", "t">>,
       v |-> <<"p", "p", "e">>],
      \* "total assets": "total_assets"
      [k |-> <<"t", "o", "t", "a", "l", " ", "a", "s", "s", "e", "t", "s">>,
       v |-> <<"t", "o", "t", "a", "l", "_", "a", "s", "s", "e", "t", "s">>],
      \* "accounts payable": "accounts_payable"
      [k |-> <<"a", "c", "c", "o", "u", "n", "t", "s", " ", "p", "a", "y", "a", "b", "l", "e">>,
       v |-> <<"a", "c", "c", "o", "u", "n", "t", "s", "_", "p", "a", "y", "a", "b", "l", "e">>],
      \* "total current liabilities": "total_current_liabilities"
      [k |-> <<"t", "o", "t", "a", "l", " ", "c", "u", "r", "r", "e", "n", "t", " ", "l", "i", "a", "b", "i", "l", "i", "t", "i", "e", "s">>,
       v |-> <<"t", "o", "t", "a", "l", "_", "c", "u", "r", "r", "e", "n", "t", "_", "l", "i", "a", "b", "i", "l", "i", "t", "i", "e", "s">>],
      \* "long-term debt": "long_term_debt"
      [k |-> <<"l", "o", "n", "g", "-", "t", "e", "r", "m", " ", "d", "e", "b", "t">>,
       v |-> <<"l", "o", "n", "g", "_", "t", "e", "r", "m", "_", "d", "e", "b", "t">>],
      \* "total liabilities": "total_liabilities"
      [k |-> <<"t", "o", "t", "a", "l", " ", "l", "i", "a", "b", "i", "l", "i", "t", "i", "e", "s">>,
       v |-> <<"t", "o", "t", "a", "l", "_", "l", "i", "a", "b", "i", "l", "i", "t", "i", "e", "s">>],
      \* "total stockholders' equity": "total_equity"
      [k |-> <<"t", "o", "t", "a", "l", " ", "s", "t", "o", "c", "k", "h", "o", "l", "d", "e", "r", "s", "'", " ", "e", "q", "u", "i", "t", "y">>,
       v |-> <<"t", "o", "t", "a", "l", "_", "e", "q", "u", "i", "t", "y">>],
      \* "total equity": "total_equity"
      [k |-> <<"t", "o", "t", "a", "l", " ", "e", "q", "u", "i", "t", "y">>,
       v |-> <<"t", "o", "t", "a", "l", "_", "e", "q", "u", "i", "t", "y">>]
    >>

CASHFLOWS_MAP ==
    <<
      \* "net cash provided by/(used in) operating activities": "cfo"
      [k |-> <<"n", "e", "t", " ", "c", "a", "s", "h", " ", "p", "r", "o", "v", "i", "d", "e", "d", " ", "b", "y", "/", "(", "u", "s", "e", "d", " ", "i", "n", ")", " ", "o", "p", "e", "r", "a", "t", "i", "n", "g", " ", "a", "c", "t", "i", "v", "i", "t", "i", "e", "s">>,
       v |-> <<"c", "f", "o">>],
      \* "net cash provided by/(used in) investing activities": "cfi"
      [k |-> <<"n", "e", "t", " ", "c", "a", "s", "h", " ", "p", "r", "o", "v", "i", "d", "e", "d", " ", "b", "y", "/", "(", "u", "s", "e", "d", " ", "i", "n", ")", " ", "i", "n", "v", "e", "s", "t", "i", "n", "g", " ", "a", "c", "t", "i", "v", "i", "t", "i", "e", "s">>,
       v |-> <<"c", "f", "i">>],
      \* "net cash provided by/(used in) financing activities": "cff"
      [k |-> <<"n", "e", "t", " ", "c", "a", "s", "h", " ", "p", "r", "o", "v", "i", "d", "e", "d", " ", "b", "y", "/", "(", "u", "s", "e", "d", " ", "i", "n", ")", " ", "f", "i", "n", "a", "n", "c", "i", "n", "g", " ", "a", "c", "t", "i", "v", "i", "t", "i", "e", "s">>,
       v |-> <<"c", "f", "f">>],
      \* "cash, cash equivalents, and restricted cash at end of period": "cash_end"
      [k |-> <<"c", "a", "s", "h", ",", " ", "c", "a", "s", "h", " ", "e", "q", "u", "i", "v", "a", "l", "e", "n", "t", "s", ",", " ", "a", "n", "d", " ", "r", "e", "s", "t", "r", "i", "c", "t", "e", "d", " ", "c", "a", "s", "h", " ", "a", "t", " ", "e", "n", "d", " ", "o", "f", " ", "p", "e", "r", "i", "o", "d">>,
       v |-> <<"c", "a", "s", "h", "_", "e", "n", "d">>]
    >>
LabelTokens ==
    {<<"N", "e", "t", " ", "I", "n", "c", "o", "m", "e">>,
     <<"/", "(", "L", "o", "s", "s", ")">>,
     <<" ", "I", "n", "c", "o", "m", "e", " ", "T", "a", "x">>,
     <<" ", "T", "a", "x">>,
     <<" ">>,
     <<Tab>>,
     <<"T", "o", "t", "a", "l">>,
     <<"A", "s", "s", "e", "t", "s">>}

StatementTypes == {"Income Statement", "Balance Sheet", "Cash Flows"}

\* {...}.get(stype, {})
MapsFor(t) ==
    CASE t = "Income Statement" -> INCOME_MAP
      [] t = "Balance Sheet" -> BALANCE_MAP
      [] t = "Cash Flows" -> CASHFLOWS_MAP
      [] OTHER -> <<>>

\* k in r
Contains(r, k) == \E i \in 0..(Len(r) - Len(k)) : SubSeq(r, i + 1, i + Len(k)) = k

RemoveAt(s, i) == SubSeq(s, 1, i - 1) \o SubSeq(s, i + 1, Len(s))

RECURSIVE SortedItemsAsc(_)
SortedItemsAsc(m) ==
    IF m = <<>> THEN <<>>
    ELSE LET i == CHOOSE i \in 1..Len(m) :
                      \A j \in 1..Len(m) :
                          \/ Len(m[i].k) < Len(m[j].k)
                          \/ (Len(m[i].k) = Len(m[j].k) /\ i <= j)
         IN  <<m[i]>> \o SortedItemsAsc(RemoveAt(m, i))

\* sorted(maps.items(), key=lambda kv: len(kv[0]), reverse=True): longest phrase first;
\* the sort is stable, so phrases of one length stay in dict order.
RECURSIVE SortedItems(_)
SortedItems(m) ==
    IF m = <<>> THEN <<>>
    ELSE LET i == CHOOSE i \in 1..Len(m) :
                      \A j \in 1..Len(m) :
                          \/ Len(m[i].k) > Len(m[j].k)
                          \/ (Len(m[i].k) = Len(m[j].k) /\ i <= j)
         IN  <<m[i]>> \o SortedItems(RemoveAt(m, i))

\* The for loop of _canonical_name: the first phrase found in r decides.
RECURSIVE FirstMatch(_, _)
FirstMatch(items, r) ==
    IF items = <<>> THEN r
    ELSE IF Contains(r, Head(items).k) THEN Head(items).v
    ELSE FirstMatch(Tail(items), r)

\* The maps are module constants: their sorted item lists are the same at every call.
SortedIncome == SortedItems(INCOME_MAP)
SortedBalance == SortedItems(BALANCE_MAP)
SortedCashFlows == SortedItems(CASHFLOWS_MAP)

SortedMapsFor(t) ==
    CASE t = "Income Statement" -> SortedIncome
      [] t = "Balance Sheet" -> SortedBalance
      [] t = "Cash Flows" -> SortedCashFlows
      [] OTHER -> SortedItems(MapsFor(t))

CanonicalName(label, t) == FirstMatch(SortedMapsFor(t), CleanText(label))

RECURSIVE Concat(_)
Concat(ss) == IF ss = <<>> THEN <<>> ELSE Head(ss) \o Concat(Tail(ss))

RawLabels ==
    {Concat(ts) : ts \in UNION {[1..n -> LabelTokens] : n \in 0..MaxTokens}} \cup {None}

CanonInit ==
    /\ pc = "call"
    /\ raw \in RawLabels
    /\ stype \in StatementTypes \cup {"Unknown"}
    /\ canon = Idle
    /\ CoerceIdle /\ SeriesIdle /\ NormIdle /\ ExtractIdle /\ AutoIdle

canonical_name ==
    /\ pc = "call"
    /\ canon' = CanonicalName(raw, stype)
    /\ pc' = "returned"
    /\ UNCHANGED <<raw, stype, coerceVars, seriesVars, normVars, extractVars, autoVars>>

CanonNext == canonical_name

SpecCanon == CanonInit /\ [][CanonNext]_vars

-----------------------------------------------------------------------------
(* C6 *)

\* The cleaned label: lower case, no whitespace at either end, one space for each
\* run of whitespace inside.
KeptAt(s, i) ==
    \/ s[i] \notin Whitespace
    \/ /\ i > 1 /\ s[i - 1] \notin Whitespace
       /\ \E j \in (i + 1)..Len(s) : s[j] \notin Whitespace

RECURSIVE Cleaned(_, _)
Cleaned(s, i) ==
    IF i > Len(s) THEN <<>>
    ELSE (IF KeptAt(s, i)
          THEN <<IF s[i] \in Whitespace THEN " " ELSE LowerChar(s[i])>>
          ELSE <<>>) \o Cleaned(s, i + 1)

Vocabulary(t) ==
    IF t = "Income Statement" THEN INCOME_MAP
    ELSE IF t = "Balance Sheet" THEN BALANCE_MAP
    ELSE IF t = "Cash Flows" THEN CASHFLOWS_MAP
    ELSE <<>>

Occurring(t, r) == {i \in 1..Len(Vocabulary(t)) : Contains(r, Vocabulary(t)[i].k)}

\* C6: _canonical_name returns the key of a longest vocabulary phrase of the statement
\* type that occurs in the cleaned label, and the cleaned label itself when none occurs
\* (also when the statement type has no vocabulary).
C6_LongestPhraseWins ==
    (pc = "returned" /\ raw # None) =>
        LET r == Cleaned(raw, 1)
            occ == Occurring(stype, r)
            voc == Vocabulary(stype)
        IN  IF occ = {} THEN canon = r
            ELSE \E i \in occ :
                    /\ \A j \in occ : Len(voc[j].k) <= Len(voc[i].k)
                    /\ canon = voc[i].v

\* A label holding a long phrase and, elsewhere, a shorter phrase with another key
\* has been given the key of the long one.
C6_Witness ==
    /\ pc = "returned"
    /\ stype = "Income Statement"
    /\ raw = <<"N", "e", "t", " ", "I", "n", "c", "o", "m", "e", "/", "(", "L", "o", "s",
               "s", ")", " ", "I", "n", "c", "o", "m", "e", " ", "T", "a", "x">>
    /\ canon = <<"n", "e", "t", "_", "i", "n", "c", "o", "m", "e">>

-----------------------------------------------------------------------------
(* normalize.py: _mostly_numeric *)

MaxSeries == 4

NotNone(c) == c # None
Parses(c) == ToNumber(c) # NoNumber

\* A fraction ok / n, as Python's ok / len(vals); 0.0 is 0 / 1.
Fraction(ok, n) == [ok |-> ok, n |-> n]
FracEq(a, b) == a.ok * b.n = b.ok * a.n
FracLess(a, b) == a.ok * b.n < b.ok * a.n

MostlyNumericNoDropna(s) ==
    IF Len(s) = 0 THEN Fraction(0, 1)
    ELSE Fraction(Len(SelectSeq(SelectSeq(s, NotNone), Parses)), Len(s))

\* series.dropna() removes the missing cells (None / NaN) and nothing else; a cell
\* holding the empty text stays.
MostlyNumeric(s) ==
    LET vals == SelectSeq(s, NotNone)
    IN  IF Len(vals) = 0 THEN Fraction(0, 1)
        ELSE Fraction(Len(SelectSeq(vals, Parses)), Len(vals))

SeriesCells == {None, <<>>, <<"1">>, <<"x">>, <<"-">>}

SeriesInit ==
    /\ pc = "call"
    /\ series \in UNION {[1..n -> SeriesCells] : n \in 0..MaxSeries}
    /\ ratio = Idle
    /\ CoerceIdle /\ CanonIdle /\ NormIdle /\ ExtractIdle /\ AutoIdle

mostly_numeric ==
    /\ pc = "call"
    /\ ratio' = MostlyNumeric(series)
    /\ pc' = "returned"
    /\ UNCHANGED <<series, coerceVars, canonVars, normVars, extractVars, autoVars>>

SeriesNext == mostly_numeric

SpecSeries == SeriesInit /\ [][SeriesNext]_vars

-----------------------------------------------------------------------------
(* C9 *)

Present(s) == {i \in 1..Len(s) : s[i] # None}
NonEmpty(s) == {i \in 1..Len(s) : s[i] # None /\ s[i] # <<>>}
Numeric(s) == {i \in 1..Len(s) : s[i] # None /\ ToNumber(s[i]) # NoNumber}

\* C9 as stated: numeric_ratio is the number of non-empty cells that parse as a number
\* divided by the number of non-empty cells; empty cells count in neither.
C9_RatioOverNonEmpty ==
    (pc = "returned" /\ NonEmpty(series) # {}) =>
        ratio.ok * Cardinality(NonEmpty(series))
            = Cardinality(Numeric(series) \cap NonEmpty(series)) * ratio.n

\* C9 as amended: numeric_ratio is the number of cells that parse as a number divided
\* by the number of cells that are not missing (None / NaN), and 0 when every cell is
\* missing; a cell holding the empty text is not missing, it counts in the denominator.
C9_RatioOverPresent ==
    pc = "returned" =>
        IF Present(series) = {} THEN ratio.ok = 0 /\ ratio.n > 0
        ELSE /\ ratio.n > 0
             /\ ratio.ok * Cardinality(Present(series))
                    = Cardinality(Numeric(series)) * ratio.n

\* A column with a missing cell, an empty text and a number got the ratio 1/2.
C9_Witness ==
    /\ pc = "returned"
    /\ series = <<None, <<>>, <<"1">>>>
    /\ FracEq(ratio, Fraction(1, 2))

-----------------------------------------------------------------------------
(* normalize.py: _pick_label_and_values, normalize_statement *)

\* A table (DataFrame) is [columns |-> header texts, rows |-> rows of cells]; the
\* headers of the tables drawn here are pairwise distinct, so a column name selects
\* one column.  MaxGrid bounds the size of the grid, header row included.
MaxGrid == 10

\* The cap on value columns: value_cols[-3:] and [...][-3:].
ValueCap == 3

\* year_re = re.compile(r"(19|20)\d{2}"); year_re.search(header)
YearSearch(h) ==
    \E i \in 1..(Len(h) - 3) :
        /\ <<h[i], h[i + 1]>> \in {<<"1", "9">>, <<"2", "0">>}
        /\ h[i + 2] \in Digits
        /\ h[i + 3] \in Digits

ColIndex(t, c) == CHOOSE j \in 1..Len(t.columns) : t.columns[j] = c

\* df[c]
Column(t, c) == [i \in 1..Len(t.rows) |-> t.rows[i][ColIndex(t, c)]]

\* scores.append({"idx": i, "col": c, "year_flag": yr, "num_ratio": ratio})
Scores(t) ==
    [i \in 1..Len(t.columns) |->
        [idx |-> i - 1,
         col |-> t.columns[i],
         year_flag |-> YearSearch(t.columns[i]),
         num_ratio |-> MostlyNumeric(Column(t, t.columns[i]))]]

BoolLess(a, b) == ~a /\ b

YearFirstKeyLess(a, b) ==
    \/ BoolLess(a.year_flag, b.year_flag)
    \/ /\ a.year_flag = b.year_flag
       /\ \/ FracLess(a.num_ratio, b.num_ratio)
          \/ (FracEq(a.num_ratio, b.num_ratio) /\ a.idx < b.idx)

\* key=lambda s: (s["num_ratio"], s["year_flag"], s["idx"]): tuples compare
\* lexicographically, False before True.
KeyLess(a, b) ==
    \/ FracLess(a.num_ratio, b.num_ratio)
    \/ /\ FracEq(a.num_ratio, b.num_ratio)
       /\ \/ BoolLess(a.year_flag, b.year_flag)
          \/ (a.year_flag = b.year_flag /\ a.idx < b.idx)

\* sorted(scores, key=...)
RECURSIVE SortedScores(_)
SortedScores(ss) ==
    IF ss = <<>> THEN <<>>
    ELSE LET i == CHOOSE i \in 1..Len(ss) : \A j \in 1..Len(ss) : ~KeyLess(ss[j], ss[i])
         IN  <<ss[i]>> \o SortedScores(RemoveAt(ss, i))

FirstN(s, n) == IF Len(s) <= n THEN s ELSE SubSeq(s, 1, n)

\* s[-n:]
LastN(s, n) == IF Len(s) <= n THEN s ELSE SubSeq(s, Len(s) - n + 1, Len(s))

CapFirst(s) == FirstN(s, ValueCap)

\* value_cols[-3:]
Cap(s) == LastN(s, ValueCap)

\* [s["col"] for s in ...]
Cols(ss) == [i \in 1..Len(ss) |-> ss[i].col]

\* The value columns, given the scores and the label column chosen from them:
\* the columns other than the label with a year header or a ratio >= 0.5, in their
\* order; when there is none, the last three columns other than the label; then the cap.
ValueColumns(t, scores, label) ==
    LET Qualifies(s) ==
            s.col # label /\ (s.year_flag \/ 2 * s.num_ratio.ok >= s.num_ratio.n)
        NotLabel(c) == c # label
        picked == Cols(SelectSeq(scores, Qualifies))
    IN  Cap(IF picked = <<>>
            THEN LastN(SelectSeq(t.columns, NotLabel), ValueCap)
            ELSE picked)

\* label_col = label_candidates[0]["col"]
LabelColumn(scores) == SortedScores(scores)[1].col

PickFrom(t, scores, label) == [label |-> label, values |-> ValueColumns(t, scores, label)]

PickScored(t, scores) == PickFrom(t, scores, LabelColumn(scores))

PickLabelAndValues(t) ==
    IF Len(t.columns) = 0 THEN [label |-> None, values |-> <<>>]
    ELSE PickScored(t, Scores(t))

LineItem == <<"l", "i", "n", "e", "_", "i", "t", "e", "m">>

\* "col1", "col2", ...
ColName(i) == <<"c", "o", "l">> \o Str(i)

\* df.empty: no column or no row
Empty(t) == Len(t.columns) = 0 \/ Len(t.rows) = 0

NoValue(v) == v = NoNumber

AllNull(r) == \A i \in 1..Len(r.values) : NoValue(r.values[i])

AnyNull(r) == \E i \in 1..Len(r.values) : NoValue(r.values[i])

\* The row test of out.dropna(how="all", subset=new_cols[1:]).
Dropped(r) == AllNull(r)

Kept(r) == ~Dropped(r)

\* The body of normalize_statement after the selection lv of label and value columns.
NormalizeSelected(t, st, lv) ==
    LET new_cols == <<LineItem>> \o [i \in 1..Len(lv.values) |-> ColName(i)]
        li == ColIndex(t, lv.label)
        vi == [k \in 1..Len(lv.values) |-> ColIndex(t, lv.values[k])]
        out == [i \in 1..Len(t.rows) |->
                   [line_item |-> CanonicalName(t.rows[i][li], st),
                    values |-> [k \in 1..Len(vi) |-> ToNumber(t.rows[i][vi[k]])]]]
    IN  [columns |-> new_cols,
         rows |-> IF Len(new_cols) > 1 THEN SelectSeq(out, Kept) ELSE out]

NormalizeStatement(t, st) ==
    IF Empty(t)
    THEN [columns |-> <<LineItem, ColName(1), ColName(2), ColName(3)>>, rows |-> <<>>]
    ELSE NormalizeSelected(t, st, PickLabelAndValues(t))

\* The header of column i: a fiscal-year header or a plain one.
Header(i, year) == IF year THEN <<"2", "0", "1">> \o Str(i) ELSE <<"c">> \o Str(i)

TableCells == {<<"x">>, <<"5">>}

TablesOf(c, r) ==
    {[columns |-> [i \in 1..c |-> Header(i, yf[i])], rows |-> rs] :
        yf \in [1..c -> BOOLEAN], rs \in [1..r -> [1..c -> TableCells]]}

Shapes == {s \in (1..MaxGrid) \X (0..MaxGrid) : s[1] * (s[2] + 1) <= MaxGrid}

\* The tables without columns: no row, and one (empty) row.
NoColumnTables == {[columns |-> <<>>, rows |-> <<>>], [columns |-> <<>>, rows |-> << <<>> >>]}

NormInit ==
    /\ pc = "call"
    /\ \E s \in Shapes : df \in TablesOf(s[1], s[2]) \cup NoColumnTables
    /\ label_col = Idle /\ value_cols = Idle /\ tidy = Idle
    /\ CoerceIdle /\ CanonIdle /\ SeriesIdle /\ ExtractIdle /\ AutoIdle

pick_label_and_values ==
    /\ pc = "call"
    /\ LET lv == PickLabelAndValues(df)
       IN  label_col' = lv.label /\ value_cols' = lv.values
    /\ pc' = "picked"
    /\ UNCHANGED <<df, tidy, coerceVars, canonVars, seriesVars, extractVars, autoVars>>

normalize_statement ==
    /\ pc = "call"
    /\ \E st \in StatementTypes \cup {"Unknown"} : tidy' = NormalizeStatement(df, st)
    /\ IF Empty(df) THEN UNCHANGED <<label_col, value_cols>>
       ELSE LET lv == PickLabelAndValues(df)
            IN  label_col' = lv.label /\ value_cols' = lv.values
    /\ pc' = "normalized"
    /\ UNCHANGED <<df, coerceVars, canonVars, seriesVars, extractVars, autoVars>>

NormNext == pick_label_and_values \/ normalize_statement

SpecNormalize == NormInit /\ [][NormNext]_vars

-----------------------------------------------------------------------------
(* C2, C3, C4 *)

ColumnAt(t, j) == [i \in 1..Len(t.rows) |-> t.rows[i][j]]

\* ratio >= 0.5, ratio a = ratio b and ratio a < ratio b, on the counts of C9.
HalfNumeric(s) == Present(s) # {} /\ 2 * Cardinality(Numeric(s)) >= Cardinality(Present(s))
RatioNum(s) == Cardinality(Numeric(s))
RatioDen(s) == IF Present(s) = {} THEN 1 ELSE Cardinality(Present(s))
SameRatio(a, b) == RatioNum(a) * RatioDen(b) = RatioNum(b) * RatioDen(a)
LowerRatio(a, b) == RatioNum(a) * RatioDen(b) < RatioNum(b) * RatioDen(a)

\* The coerced cells of row i under the selected value columns, in the order selected.
Selected(i) ==
    [k \in 1..Len(value_cols) |-> ToNumber(df.rows[i][ColIndex(df, value_cols[k])])]

HasValue(i) == \E k \in 1..Len(value_cols) : Selected(i)[k] # NoNumber

LeftToRight ==
    \A k \in 1..Len(value_cols), m \in 1..Len(value_cols) :
        k < m => ColIndex(df, value_cols[k]) < ColIndex(df, value_cols[m])

\* The output holds exactly the rows of keep, in their input order, each with its
\* selected values.
OutputIs(keep) ==
    /\ Len(tidy.rows) = Cardinality(keep)
    /\ \A i \in keep :
          tidy.rows[Cardinality({j \in keep : j <= i})].values = Selected(i)
    /\ LeftToRight

\* C2 as stated: for every table with at least one row and every number K of selected
\* value columns, 0 <= K <= 3, the output holds exactly the rows with at least one
\* non-null selected value, values left to right, rows in input order.
C2_DropsAllNullRows ==
    (pc = "normalized" /\ Len(df.rows) >= 1) =>
        OutputIs({i \in 1..Len(df.rows) : HasValue(i)})

\* C2 as amended: that holds when K >= 1; when the table has a column and K = 0 (its
\* only column is the label column) no row is dropped; a table without columns gives
\* no rows.
C2_DropsAllNullRowsWhenValues ==
    (pc = "normalized" /\ Len(df.rows) >= 1) =>
        /\ Len(value_cols) <= 3
        /\ IF Len(df.columns) = 0 THEN tidy.rows = <<>>
           ELSE IF Len(value_cols) = 0
           THEN /\ Len(df.columns) = 1
                /\ Len(tidy.rows) = Len(df.rows)
           ELSE OutputIs({i \in 1..Len(df.rows) : HasValue(i)})

\* Three rows, the middle one without any number: the output holds the first and the
\* third, in that order.
C2_Witness ==
    /\ pc = "normalized"
    /\ Len(df.rows) = 3
    /\ Len(value_cols) = 1
    /\ HasValue(1) /\ ~HasValue(2) /\ HasValue(3)
    /\ df.rows[1] # df.rows[3]
    /\ Len(tidy.rows) = 2
    /\ tidy.rows[1].line_item = df.rows[1][ColIndex(df, label_col)]
    /\ tidy.rows[2].line_item = df.rows[3][ColIndex(df, label_col)]

Qualifying ==
    {j \in 1..Len(df.columns) :
        /\ df.columns[j] # label_col
        /\ (YearSearch(df.columns[j]) \/ HalfNumeric(ColumnAt(df, j)))}

Rightmost3(Q) == {j \in Q : Cardinality({k \in Q : k > j}) < 3}

\* C3: _pick_label_and_values returns at most 3 value columns; when more than 3
\* columns other than the label qualify (year header or ratio >= 0.5) it returns
\* exactly the 3 qualifying columns of greatest index, left to right.
C3_AtMostThreeRightmost ==
    pc = "picked" =>
        /\ Len(value_cols) <= 3
        /\ Cardinality(Qualifying) > 3 =>
              /\ Len(value_cols) = 3
              /\ \A j \in Rightmost3(Qualifying) :
                    value_cols[Cardinality({k \in Rightmost3(Qualifying) : k <= j})]
                        = df.columns[j]

\* Four columns besides the label qualify and the leftmost of them is left out.
C3_Witness ==
    /\ pc = "picked"
    /\ Cardinality(Qualifying) = 4
    /\ Len(value_cols) = 3
    /\ \E j \in Qualifying : \A k \in 1..3 : value_cols[k] # df.columns[j]

\* Column a comes before column b in the order of C4.
Before(a, b) ==
    \/ LowerRatio(ColumnAt(df, a), ColumnAt(df, b))
    \/ /\ SameRatio(ColumnAt(df, a), ColumnAt(df, b))
       /\ \/ (~YearSearch(df.columns[a]) /\ YearSearch(df.columns[b]))
          \/ (YearSearch(df.columns[a]) = YearSearch(df.columns[b]) /\ a < b)

\* C4: the label column has the least numeric ratio; among columns tied on the ratio
\* one without a year header is preferred, and among those still tied the leftmost.
C4_LabelIsMinimum ==
    (pc = "picked" /\ Len(df.columns) >= 1) =>
        \E a \in 1..Len(df.columns) :
            /\ label_col = df.columns[a]
            /\ \A b \in 1..Len(df.columns) : b # a => Before(a, b)

\* Columns 1 and 2 tie on the ratio, column 1 has a year header and column 2 has
\* none: column 2 is the label, although a third column has a greater ratio.
C4_Witness ==
    /\ pc = "picked"
    /\ Len(df.columns) = 3
    /\ Len(df.rows) = 2
    /\ YearSearch(df.columns[1]) /\ ~YearSearch(df.columns[2])
    /\ SameRatio(ColumnAt(df, 1), ColumnAt(df, 2))
    /\ LowerRatio(ColumnAt(df, 2), ColumnAt(df, 3))
    /\ RatioNum(ColumnAt(df, 1)) = 1
    /\ label_col = df.columns[2]

-----------------------------------------------------------------------------
(* parse_pdf.py: _make_cols_unique, extract_tables *)

MaxCols == 3
MaxTables == 2
MaxTableRows == 2

SuffixedOffByOne(col, n) == col \o <<".">> \o Str(n - 1)

\* f"{col}.{counts[col]}"
Suffixed(col, n) == col \o <<".">> \o Str(n)

\* The for loop of _make_cols_unique: counts maps each header seen to the number of
\* times it was seen.
RECURSIVE UniqueLoop(_, _, _)
UniqueLoop(cols, counts, new_cols) ==
    IF cols = <<>> THEN new_cols
    ELSE LET col == Head(cols)
         IN  IF col \in DOMAIN counts
             THEN UniqueLoop(Tail(cols),
                             [counts EXCEPT ![col] = @ + 1],
                             Append(new_cols, Suffixed(col, counts[col] + 1)))
             ELSE UniqueLoop(Tail(cols), counts @@ (col :> 1), Append(new_cols, col))

MakeColsUnique(cols) == UniqueLoop(cols, <<>>, <<>>)

\* The page specifications requested (opaque to extract_tables).
PageSpecs == {"1-end", "3", "4,5"}

\* The texts a header cell may hold.
HeaderNames == {<<"a">>, <<"a", ".", "2">>, <<"b">>}

HeaderRows == UNION {[1..n -> HeaderNames] : n \in 1..MaxCols}

\* What camelot.read_pdf returned: the flavor asked for and the number of tables.
TableList(flavor, n) == [flavor |-> flavor, n |-> n]

AlwaysEmpty(t) == TRUE

\* not tables
NoTables(t) == t.n = 0

\* tables[0]
FirstTable(t) == [flavor |-> t.flavor, pos |-> 0]

\* ValueError(f"No tables found on pages={pages}")
NoTablesFound(p) == [type |-> "ValueError", message |-> <<"No tables found on pages=", p>>]

ExtractInit ==
    /\ pc = "call"
    /\ pages \in PageSpecs
    /\ calls = <<>> /\ tables = Idle /\ used = Idle /\ header = Idle /\ columns = Idle
    /\ nrows = 0 /\ error = Idle
    /\ CoerceIdle /\ CanonIdle /\ SeriesIdle /\ NormIdle /\ AutoIdle

\* tables = read("lattice")
read_lattice ==
    /\ pc = "call"
    /\ \E n \in 0..MaxTables :
          /\ tables' = TableList("lattice", n)
          /\ calls' = Append(calls, TableList("lattice", n))
    /\ pc' = "lattice_read"
    /\ UNCHANGED <<pages, used, header, columns, nrows, error>>
    /\ UNCHANGED <<coerceVars, canonVars, seriesVars, normVars, autoVars>>

\* if not tables: tables = read("stream")
read_stream ==
    /\ pc = "lattice_read"
    /\ NoTables(tables)
    /\ \E n \in 0..MaxTables :
          /\ tables' = TableList("stream", n)
          /\ calls' = Append(calls, TableList("stream", n))
    /\ pc' = "stream_read"
    /\ UNCHANGED <<pages, used, header, columns, nrows, error>>
    /\ UNCHANGED <<coerceVars, canonVars, seriesVars, normVars, autoVars>>

\* Past the fallback: the stream call was made, or the lattice call found tables.
ReadDone == pc = "stream_read" \/ (pc = "lattice_read" /\ ~NoTables(tables))

\* if not tables: raise ValueError(...)
raise_no_tables ==
    /\ ReadDone
    /\ NoTables(tables)
    /\ error' = NoTablesFound(pages)
    /\ pc' = "raised"
    /\ UNCHANGED <<pages, calls, tables, used, header, columns, nrows>>
    /\ UNCHANGED <<coerceVars, canonVars, seriesVars, normVars, autoVars>>

\* The first table is taken, its first row becomes the header, the remaining rows
\* are the data, the column names are made unique, and the frame is returned.
return_first_table ==
    /\ ReadDone
    /\ ~NoTables(tables)
    /\ used' = FirstTable(tables)
    /\ \E h \in HeaderRows, r \in 1..MaxTableRows :
          /\ header' = h
          /\ nrows' = r - 1
          /\ columns' = MakeColsUnique(h)
    /\ pc' = "returned"
    /\ UNCHANGED <<pages, calls, tables, error>>
    /\ UNCHANGED <<coerceVars, canonVars, seriesVars, normVars, autoVars>>

ExtractNext == read_lattice \/ read_stream \/ raise_no_tables \/ return_first_table

SpecExtract == ExtractInit /\ [][ExtractNext]_vars

-----------------------------------------------------------------------------
(* C5, C8, C10 *)

\* C5: the lattice strategy is called first and the stream strategy only after the
\* lattice call returned no table; extraction fails exactly when both returned no
\* table, and the failure carries the page specification requested; otherwise the
\* first table of the strategy that found tables is used.
C5_LatticeThenStream ==
    /\ Len(calls) <= 2
    /\ Len(calls) >= 1 => calls[1].flavor = "lattice"
    /\ Len(calls) = 2 => (calls[2].flavor = "stream" /\ calls[1].n = 0)
    /\ pc \in {"raised", "returned"} =>
          /\ pc = "raised" <=> (Len(calls) = 2 /\ calls[1].n = 0 /\ calls[2].n = 0)
          /\ pc = "raised" => error.message[2] = pages
          /\ pc = "returned" =>
                \E k \in 1..Len(calls) :
                    /\ calls[k].n > 0
                    /\ \A j \in 1..(k - 1) : calls[j].n = 0
                    /\ used = [flavor |-> calls[k].flavor, pos |-> 0]

\* The lattice call found nothing, the stream call found two tables, and the first
\* stream table was returned.
C5_Witness ==
    /\ pc = "returned"
    /\ calls = <<TableList("lattice", 0), TableList("stream", 2)>>
    /\ used = [flavor |-> "stream", pos |-> 0]

Occurrence(h, i) == Cardinality({j \in 1..i : h[j] = h[i]})

\* C8: _make_cols_unique keeps the length; the first occurrence of a header text is
\* unchanged and its k-th occurrence, k >= 2, becomes the text followed by ".k".
C8_SuffixesRepeats ==
    pc = "returned" =>
        /\ Len(columns) = Len(header)
        /\ \A i \in 1..Len(header) :
              columns[i] = IF Occurrence(header, i) = 1 THEN header[i]
                           ELSE header[i] \o <<".">> \o Str(Occurrence(header, i))

\* A header text seen three times: unchanged, then ".2", then ".3".
C8_Witness ==
    /\ pc = "returned"
    /\ header = <<<<"b">>, <<"b">>, <<"b">>>>
    /\ columns = <<<<"b">>, <<"b", ".", "2">>, <<"b", ".", "3">>>>

\* C10: the column names of the table extract_tables returns are pairwise distinct.
C10_NamesDistinct ==
    pc = "returned" =>
        \A i \in 1..Len(columns), j \in 1..Len(columns) : i # j => columns[i] # columns[j]

-----------------------------------------------------------------------------
(* detect_statements.py: detect_pages; main.py: auto_extract_endpoint *)

MaxPages == 2

\* STATEMENT_PATTERNS, in the order the dict literal lists them.
PatternOrder == <<"Income Statement", "Balance Sheet", "Cash Flows">>

\* A document is a sequence of pages; a page is the set of statement types whose
\* heading pattern its text matches.
Documents == UNION {[1..n -> SUBSET StatementTypes] : n \in 0..MaxPages}

HasKey(m, t) == \E k \in 1..Len(m) : m[k].stype = t

\* result[stype].append(i) on a defaultdict(list): a new key goes last.
AppendPage(m, t, i) ==
    IF HasKey(m, t)
    THEN [k \in 1..Len(m) |->
             IF m[k].stype = t THEN [m[k] EXCEPT !.pages = Append(@, i)] ELSE m[k]]
    ELSE Append(m, [stype |-> t, pages |-> <<i>>])

RECURSIVE DetectFrom(_, _, _, _)
DetectFrom(d, i, p, m) ==
    IF i > Len(d) THEN m
    ELSE IF p > Len(PatternOrder) THEN DetectFrom(d, i + 1, 1, m)
    ELSE DetectFrom(d, i, p + 1,
                    IF PatternOrder[p] \in d[i] THEN AppendPage(m, PatternOrder[p], i) ELSE m)

\* detect_pages(pdf_path): the items of the returned dict, in insertion order.
DetectPages(d) == DetectFrom(d, 1, 1, <<>>)

\* ",".join(map(str, pages))
RECURSIVE JoinPages(_)
JoinPages(ps) ==
    IF ps = <<>> THEN <<>>
    ELSE IF Len(ps) = 1 THEN Str(ps[1])
    ELSE Str(ps[1]) \o <<",">> \o JoinPages(Tail(ps))

\* What the try block of one statement type can do: return a tidy frame, or raise in
\* extract_tables, or raise in normalize_statement.
Outcomes == {"ok", "extract_raised", "normalize_raised"}

\* The tidy frames a successful normalisation may return.
TidyFrames ==
    {[columns |-> <<LineItem, ColName(1), ColName(2), ColName(3)>>, rows |-> <<>>],
     [columns |-> <<LineItem, ColName(1)>>,
      rows |-> <<[line_item |-> <<"c", "a", "s", "h">>, values |-> <<ToNumber(<<"5">>)>>]>>]}

\* str(e)
ErrorText(o, page_str) ==
    IF o = "extract_raised" THEN NoTablesFound(page_str).message
    ELSE <<"Length mismatch">>

SuccessEntry(frame, ps) == [columns |-> frame.columns, rows |-> frame.rows, pages |-> ps]

ErrorEntry(o, ps) == [error |-> ErrorText(o, JoinPages(ps)), pages |-> ps]

\* output[stype] = {...}
SetEntry(out, t, entry) == (t :> entry) @@ out

AbortWithError(out, t, o, ps) == (t :> ErrorEntry(o, ps))

\* The except clause: output[stype] = {"error": str(e), "pages": pages}
RecordError(out, t, o, ps) == SetEntry(out, t, ErrorEntry(o, ps))

AutoInit ==
    /\ pc = "call"
    /\ doc \in Documents
    /\ pages_map = Idle /\ idx = 0 /\ outcome = <<>> /\ output = <<>>
    /\ CoerceIdle /\ CanonIdle /\ SeriesIdle /\ NormIdle /\ ExtractIdle

\* pages_map = detect_pages(pdf_path); output = {}
detect_pages ==
    /\ pc = "call"
    /\ pages_map' = DetectPages(doc)
    /\ pc' = "loop"
    /\ UNCHANGED <<doc, idx, outcome, output>>
    /\ UNCHANGED <<coerceVars, canonVars, seriesVars, normVars, extractVars>>

\* One pass of the for loop whose try block returns.
statement_ok ==
    /\ pc = "loop"
    /\ idx < Len(pages_map)
    /\ LET item == pages_map[idx + 1]
       IN  /\ \E frame \in TidyFrames :
                 output' = SetEntry(output, item.stype, SuccessEntry(frame, item.pages))
           /\ outcome' = (item.stype :> "ok") @@ outcome
    /\ idx' = idx + 1
    /\ UNCHANGED <<pc, doc, pages_map>>
    /\ UNCHANGED <<coerceVars, canonVars, seriesVars, normVars, extractVars>>

\* One pass of the for loop whose try block raises: the except clause records the error.
statement_raised ==
    /\ pc = "loop"
    /\ idx < Len(pages_map)
    /\ LET item == pages_map[idx + 1]
       IN  \E o \in Outcomes \ {"ok"} :
              /\ output' = RecordError(output, item.stype, o, item.pages)
              /\ outcome' = (item.stype :> o) @@ outcome
    /\ idx' = idx + 1
    /\ UNCHANGED <<pc, doc, pages_map>>
    /\ UNCHANGED <<coerceVars, canonVars, seriesVars, normVars, extractVars>>

\* return JSONResponse(output)
respond ==
    /\ pc = "loop"
    /\ idx = Len(pages_map)
    /\ pc' = "responded"
    /\ UNCHANGED <<doc, pages_map, idx, outcome, output>>
    /\ UNCHANGED <<coerceVars, canonVars, seriesVars, normVars, extractVars>>

AutoNext == detect_pages \/ statement_ok \/ statement_raised \/ respond

SpecAuto == AutoInit /\ [][AutoNext]_vars

-----------------------------------------------------------------------------
(* C1 *)

Processed == IF pc = "call" THEN {} ELSE {pages_map[k].stype : k \in 1..idx}

PagesOf(t) == pages_map[CHOOSE k \in 1..Len(pages_map) : pages_map[k].stype = t].pages

\* C1: whatever happened to the other statement types, the output holds exactly one
\* entry for every statement type processed so far (in the response: for every type
\* of the page map): {columns, rows, pages} when its own extraction and normalisation
\* returned, {error, pages} when one of them raised, pages being the pages attempted.
C1_OneEntryPerType ==
    /\ DOMAIN output = Processed
    /\ \A t \in Processed :
          /\ output[t].pages = PagesOf(t)
          /\ outcome[t] = "ok" => DOMAIN output[t] = {"columns", "rows", "pages"}
          /\ outcome[t] # "ok" => DOMAIN output[t] = {"error", "pages"}
    /\ pc = "responded" => Processed = {pages_map[k].stype : k \in 1..Len(pages_map)}

\* The response to a document with all three statements, where the second statement
\* failed to extract and the other two succeeded.
C1_Witness ==
    /\ pc = "responded"
    /\ Len(pages_map) = 3
    /\ outcome[pages_map[1].stype] = "ok"
    /\ outcome[pages_map[2].stype] = "extract_raised"
    /\ outcome[pages_map[3].stype] = "ok"
    /\ "rows" \in DOMAIN output[pages_map[1].stype]
    /\ "error" \in DOMAIN output[pages_map[2].stype]
    /\ "rows" \in DOMAIN output[pages_map[3].stype]

====
